---- MODULE Spec2Model ----
(***************************************************************************)
(* Graphics context and frame-rendering lifecycle of Pulsar-Sample.        *)
(*                                                                         *)
(* The repository holds two front ends over wgpu/winit:                    *)
(*   prog = "App"    : render/mod.rs  App + render/ctx.rs WgpuCtx          *)
(*                     (entry init_renderer)                               *)
(*   prog = "Engine" : engine/mod.rs  Engine + run()                       *)
(* Init picks one of them; each behaviour is a run of that program.        *)
(*                                                                         *)
(* Both run on winit's single event-loop thread: a handler (&mut self /    *)
(* FnMut closure) runs to completion before the next event is dispatched,  *)
(* while the window system keeps posting events in the meantime.           *)
(***************************************************************************)
EXTENDS Integers, Sequences, FiniteSets, TLC

(* ------------------------------ bounds --------------------------------- *)
\* pending window events the model keeps
MaxQueue == 2
\* clock readings (ns) go up to MaxTicks past 0 and past 2^24 ns
MaxTicks == 1

\* window sizes the window system may report (a zero dimension: minimised)
Sizes == {<<800, 600>>, <<640, 480>>, <<0, 600>>}

(* --------------------------- program constants ------------------------- *)
\* f32 significand width used by Duration::as_secs_f32
F32_MANTISSA_DIGITS == 24

\* wgpu::SurfaceError variants, plus "Ok"
SurfaceErrors == {"Timeout", "Outdated", "Lost", "OutOfMemory"}
SurfaceResults == {"Ok"} \cup SurfaceErrors
\* outcomes of presenting the acquired image
PresentResults == {"Ok", "OutOfMemory"}
\* outcomes of WgpuCtx::new
CtxResults == {"Ok", "SurfaceCreationFailure", "NoAdapter", "NoDevice",
               "PipelineFailure"}

\* surface_caps.formats as a surface may report it: with an sRGB format that
\* is not the first, and without any
FormatLists == {<<"Bgra8Unorm", "Bgra8UnormSrgb">>, <<"Rgba8Unorm", "Bgra8Unorm">>}

FrameStates == {"Idle", "Acquiring", "Encoding", "Submitted", "Presented"}

VARIABLES
    prog,             \* which front end runs
    status,           \* "running" | "exiting" (run: target.exit() was called,
                      \*   the loop iteration is being finished) | "exited" |
                      \*   "panicked"
    exit_phase,       \* run: the part of the loop iteration target.exit() was
                      \*   called in or that was reached since: "events",
                      \*   "redraw"; "none" while no exit is requested
    exit_code,        \* process exit status once not running, else -1
    window,           \* App.window.is_some() / Engine.window exists
    window_size,      \* window.inner_size() as the window system has it
    ctx,              \* App.ctx : Option<WgpuCtx>
    engine,           \* the Engine value built by Engine::new
    uniform_buffer,   \* last contents queued into WgpuCtx.uniform_buffer
    now,              \* monotonic clock (Instant), ns
    frame,            \* frame state of the render call (spec 4.6)
    draw_pc,          \* position inside the redraw handler (0 = none running):
                      \*   App: index of the next statement of WgpuCtx::draw
                      \*   Engine: 1 = in engine.render(), 2 = at run's match
    queue,            \* window events posted and not yet dispatched
    redraw_requested, \* a RedrawRequested is due (request_redraw / expose)
    \* ---- observation (history) variables ----
    applied,          \* configuration last passed to surface.configure
    zero_submitted,   \* some surface.configure call got a zero dimension
    configure_busy,   \* some surface.configure call ran while frame # Idle
    resize_arg,       \* argument of the most recent resize call
    initial_size,     \* window size read by the constructor
    last_acquire,     \* result of the most recent frame acquisition
    last_present,     \* result of the most recent presentation
    render_ret,       \* what the last render call reported to its caller
    cycles,           \* surface.configure calls made by the last redraw handler
    logged,           \* the last redraw handler logged an error
    trace,            \* frame states visited by the current/last render call
    call_log,         \* GPU operations issued by the current/last render call
    prev_time,        \* elapsed time packed by the previous render call
    prev_now,         \* clock reading of the previous render call (-1: none)
    last_now,         \* clock reading of the latest render call (-1: none)
    noop_event,       \* the event handled last found nothing to act on:
                      \*   "resumed" (a window already existed), "window_event"
                      \*   (no context existed); "none" after any other event
    ctor_ret,         \* how the context constructor ended: "none" (not run),
                      \*   "Ok", "Err" (a ContextError value), "panic"
    ctor_failure,     \* the failure the constructor met ("none": none)
    closed,           \* a CloseRequested event has been handled
    created,          \* how many windows and contexts the program has built
    negotiated        \* surface format and present mode chosen at construction

progVars == <<prog, status, exit_phase, exit_code, window, window_size, ctx, engine,
              uniform_buffer, now, frame, draw_pc, queue, redraw_requested>>
histVars == <<applied, zero_submitted, configure_busy, resize_arg, initial_size,
              last_acquire, last_present,
              render_ret, cycles, logged, trace, call_log, prev_time, prev_now, last_now,
              noop_event, ctor_ret, ctor_failure, closed, created, negotiated>>
vars == <<progVars, histVars>>

(* ------------------------------ helpers -------------------------------- *)
Max(a, b) == IF a >= b THEN a ELSE b

NoSize == <<-1, -1>>
NoConfig == [width |-> -1, height |-> -1]
NoNegotiated == [format |-> "none", present_mode |-> "none"]
NoCtx == [some |-> FALSE, surface_config |-> NoConfig, start_time |-> 0,
          format |-> "none", present_mode |-> "none",
          device |-> 0, render_pipeline |-> 0, uniform_buffer |-> 0]
NoEngine == [some |-> FALSE, config |-> NoConfig, depth_texture |-> NoSize,
             mesh_depth |-> NoSize, format |-> "none", present_mode |-> "none",
             device |-> 0]
NoUniform == [time |-> -1, aspect |-> NoSize]

HasZero(cfg) == cfg.width = 0 \/ cfg.height = 0

RECURSIVE Pow2(_)
Pow2(k) == IF k = 0 THEN 1 ELSE 2 * Pow2(k - 1)

\* spacing of f32 values around n: the power of two q with n < q * 2^24
RECURSIVE F32Quantum(_, _)
F32Quantum(n, q) ==
    IF n < q * Pow2(F32_MANTISSA_DIGITS) THEN q ELSE F32Quantum(n, 2 * q)

\* `nanos as f32`: round to nearest representable value, ties to even
u32_as_f32(n) ==
    LET q == F32Quantum(n, 1)
        lo == (n \div q) * q
        r == n - lo
    IN  IF 2 * r < q THEN lo
        ELSE IF 2 * r > q THEN lo + q
        ELSE IF (lo \div q) % 2 = 0 THEN lo ELSE lo + q

\* Duration::as_secs_f32 = (secs as f32) + (nanos as f32) / 1e9.
\* Durations of the model stay below one second (ClockBase + MaxTicks < 10^9), so secs = 0
\* and the value is (nanos as f32) / 1e9; it is kept in units of 1e-9, the
\* division by the constant being monotone.
as_secs_f32(d) == u32_as_f32(d)

\* the instants the monotonic clock is read at, in ns since the context was
\* built: the first few nanoseconds, and the first few past 2^24 ns (16.8 ms),
\* where consecutive f32 values are more than 1 ns apart
ClockBase == Pow2(F32_MANTISSA_DIGITS)
Instants == (0..MaxTicks) \cup {ClockBase + k : k \in 0..MaxTicks}

\* Instant::elapsed
elapsed(start, t) == t - start


redrawHist == <<last_acquire, last_present, render_ret, cycles, logged, trace, call_log>>
cfgHist == <<applied, zero_submitted, configure_busy, resize_arg, initial_size>>
timeHist == <<prev_time, prev_now, last_now>>
ctorHist == <<ctor_ret, ctor_failure, created, negotiated>>

ResizedEvent(s) == [type |-> "Resized", size |-> s]
CloseEvent == [type |-> "CloseRequested", size |-> NoSize]

\* the event loop is calling handlers: it runs, or finishes the iteration in
\* which the handler called target.exit()
Live == {"running", "exiting"}

\* variant: a handler may be entered while a render call is still in progress
CanDispatch_reentrant == status \in Live

\* The event loop calls its handler (App::window_event(&mut self, ..), the
\* FnMut closure of run) only when the previous call has returned.
CanDispatch == status \in Live /\ draw_pc = 0 /\ frame = "Idle"

\* variant: every resumed notification builds a window and a context
App_resumed_builds_always(w) == TRUE

\* `if self.window.is_none()` of App::resumed
App_resumed_builds(w) == ~w

\* variant: the handlers use the context without checking that it exists
App_has_ctx_unchecked(c) == TRUE

\* `if let Some(ctx) = &mut self.ctx` of App::window_event
App_has_ctx(c) == c.some

\* the window system delivers window events once the program has a window; the
\* App handlers take events for any window id, so for App they may also arrive
\* before resumed has built window and context
CanPost == status = "running" /\ (window \/ prog = "App")

(* ------------------------- render/ctx.rs : WgpuCtx --------------------- *)
\* WgpuCtx::new, the part that decides the stored state. format and
\* present_mode are the fields of surface_config that get_default_config
\* chose; device (with its adapter and queue), render_pipeline and
\* uniform_buffer count how many times the resource has been created.
WgpuCtx_new(size, t) ==
    [some |-> TRUE,
     surface_config |-> [width |-> Max(size[1], 1), height |-> Max(size[2], 1)],
     start_time |-> t,
     format |-> "default", present_mode |-> "default",
     device |-> 1, render_pipeline |-> 1, uniform_buffer |-> 1]

\* variant: resize builds a new pipeline for the resized surface
WgpuCtx_resize_rebuilds(c, new_size) ==
    [c EXCEPT !.surface_config =
                  [width |-> Max(new_size[1], 1), height |-> Max(new_size[2], 1)],
              !.render_pipeline = c.render_pipeline + 1]

\* how WgpuCtx::new ends for each outcome of its steps: create_surface(..)?
\* returns Err(ContextError::SurfaceCreationFailure); request_adapter and
\* request_device are unwrapped with .expect(..); a shader or pipeline that
\* fails validation reaches wgpu's uncaptured-error handler, which panics
WgpuCtx_new_returns(r) ==
    CASE r = "Ok" -> "Ok"
      [] r = "SurfaceCreationFailure" -> "Err"
      [] OTHER -> "panic"

\* variant: resize rebuilds the context state, restarting start_time
WgpuCtx_resize_restart(c, new_size) ==
    [c EXCEPT !.surface_config =
                  [width |-> Max(new_size[1], 1), height |-> Max(new_size[2], 1)],
              !.start_time = now]

\* WgpuCtx::resize
WgpuCtx_resize(c, new_size) ==
    [c EXCEPT !.surface_config =
        [width |-> Max(new_size[1], 1), height |-> Max(new_size[2], 1)]]

\* uniform_data of WgpuCtx::draw: [elapsed, aspect, 0.0, 0.0]; the aspect
\* ratio is kept as the pair it is the quotient of
WgpuCtx_uniform_data(c, t) ==
    [time |-> as_secs_f32(elapsed(c.start_time, t)),
     aspect |-> <<c.surface_config.width, c.surface_config.height>>]

\* variant: the image is presented before the command buffer is submitted
WgpuCtx_draw_present_first ==
    <<"write_buffer", "get_current_texture", "expect",
      "create_command_encoder", "render_pass", "present", "submit">>

\* the statements of WgpuCtx::draw in program order; "expect" is the unwrap of
\* the acquisition result, "render_pass" the block that begins the pass, binds
\* pipeline and uniform and draws the 36 vertices, "submit" finishes the
\* encoder and submits its command buffer
WgpuCtx_draw ==
    <<"write_buffer", "get_current_texture", "expect",
      "create_command_encoder", "render_pass", "submit", "present">>

\* frame state (spec 4.6) entered by a statement of a render call
FrameStateAfter(op, cur) ==
    CASE op = "get_current_texture" -> "Acquiring"
      [] op = "create_command_encoder" -> "Encoding"
      [] op = "submit" -> "Submitted"
      [] op = "present" -> "Presented"
      [] OTHER -> cur

(* ------------------------- engine/mod.rs : Engine ---------------------- *)
\* Engine::create_depth_texture: extent = (config.width, config.height)
Engine_create_depth_texture(config) == <<config.width, config.height>>

\* Mesh::create_depth_texture
Mesh_create_depth_texture(config) == <<config.width, config.height>>

\* TextureFormat::is_srgb
is_srgb(f) == f = "Bgra8UnormSrgb"

\* Engine::new, the part that decides the stored state. format and
\* present_mode are fields of config: the first sRGB format of
\* surface_caps.formats, else formats[0]; present_modes[0].
Engine_new(size, formats) ==
    LET config == [width |-> size[1], height |-> size[2]]
        srgb == {i \in 1..Len(formats) : is_srgb(formats[i])}
        format == IF srgb # {}
                  THEN formats[CHOOSE i \in srgb : \A j \in srgb : i <= j]
                  ELSE formats[1]
    IN  [some |-> TRUE, config |-> config,
         depth_texture |-> Engine_create_depth_texture(config),
         mesh_depth |-> Mesh_create_depth_texture(config),
         format |-> format, present_mode |-> "present_modes[0]",
         device |-> 1]

\* the guard of Engine::resize
Engine_resize_applies(new_size) == new_size[1] > 0 /\ new_size[2] > 0

\* variant: the depth texture is rebuilt before the new size is stored
Engine_resize_stale_depth(e, new_size) ==
    IF Engine_resize_applies(new_size)
    THEN [e EXCEPT !.config = [width |-> new_size[1], height |-> new_size[2]],
                   !.depth_texture = Engine_create_depth_texture(e.config)]
    ELSE e

\* Engine::resize
Engine_resize(e, new_size) ==
    IF Engine_resize_applies(new_size)
    THEN LET config == [width |-> new_size[1], height |-> new_size[2]]
         IN  [e EXCEPT !.config = config,
                       !.depth_texture = Engine_create_depth_texture(config)]
    ELSE e

\* variant: OutOfMemory falls into the catch-all arm and is only logged
Run_on_render_oom_logged(r) ==
    CASE r = "Ok" -> "none"
      [] r = "Lost" -> "resize"
      [] OTHER -> "log"

\* the match on engine.render() in run's RedrawRequested arm
Run_on_render(r) ==
    CASE r = "Ok" -> "none"
      [] r = "Lost" -> "resize"
      [] r = "OutOfMemory" -> "exit"
      [] OTHER -> "log"

(* ------------------------------- Init ---------------------------------- *)
Init ==
    /\ prog \in {"App", "Engine"}
    /\ status = "running"
    /\ exit_phase = "none"
    /\ exit_code = -1
    /\ window = FALSE
    /\ window_size = <<0, 0>>
    /\ ctx = NoCtx
    /\ engine = NoEngine
    /\ uniform_buffer = NoUniform
    /\ now = 0
    /\ frame = "Idle"
    /\ draw_pc = 0
    /\ queue = <<>>
    /\ redraw_requested = FALSE
    /\ applied = NoConfig
    /\ zero_submitted = FALSE
    /\ configure_busy = FALSE
    /\ resize_arg = NoSize
    /\ initial_size = NoSize
    /\ last_acquire = "none"
    /\ last_present = "none"
    /\ render_ret = "none"
    /\ cycles = 0
    /\ logged = FALSE
    /\ trace = <<>>
    /\ call_log = <<>>
    /\ prev_time = -1
    /\ prev_now = -1
    /\ last_now = -1
    /\ noop_event = "none"
    /\ ctor_ret = "none"
    /\ ctor_failure = "none"
    /\ closed = FALSE
    /\ created = [windows |-> 0, contexts |-> 0]
    /\ negotiated = NoNegotiated

(* ------------------------ the window system ---------------------------- *)
\* the user resizes (or minimises) the window: a Resized event is posted
OSResize(s) ==
    /\ CanPost
    /\ Len(queue) < MaxQueue
    /\ window_size' = IF window THEN s ELSE window_size
    /\ queue' = Append(queue, ResizedEvent(s))
    /\ UNCHANGED <<prog, exit_phase, status, exit_code, window, ctx, engine, uniform_buffer,
                   now, frame, draw_pc, redraw_requested, histVars>>

\* the user closes the window
OSClose ==
    /\ CanPost
    /\ Len(queue) < MaxQueue
    /\ queue' = Append(queue, CloseEvent)
    /\ UNCHANGED <<prog, exit_phase, status, exit_code, window, window_size, ctx, engine,
                   uniform_buffer, now, frame, draw_pc, redraw_requested, histVars>>

\* the window system asks for a repaint
OSExpose ==
    /\ CanPost
    /\ ~redraw_requested
    /\ redraw_requested' = TRUE
    /\ UNCHANGED <<prog, exit_phase, status, exit_code, window, window_size, ctx, engine,
                   uniform_buffer, now, frame, draw_pc, queue, histVars>>

\* the monotonic clock advances; its origin is the instant the context is
\* built, the only Instant the program keeps. The program reads the clock in
\* one place, the first statement of WgpuCtx::draw (start_time.elapsed()), so
\* the time that passed since the last reading is added when that statement
\* is about to run.
Tick(t) ==
    /\ status = "running" /\ ctx.some
    /\ draw_pc = 1
    /\ t > now
    /\ now' = t
    /\ UNCHANGED <<prog, exit_phase, status, exit_code, window, window_size, ctx, engine,
                   uniform_buffer, frame, draw_pc, queue, redraw_requested,
                   redrawHist, cfgHist, timeHist,
                   noop_event, ctorHist, closed>>


(* --------------------- render/mod.rs : App handlers -------------------- *)
\* App::resumed
App_resumed ==
    /\ prog = "App" /\ CanDispatch
    /\ IF ~App_resumed_builds(window)
       THEN /\ noop_event' = "resumed"
            /\ UNCHANGED <<progVars, cfgHist, redrawHist, timeHist, ctorHist, closed>>
       ELSE \E s \in Sizes, r \in CtxResults :
            /\ noop_event' = "none"
            /\ window' = TRUE
            /\ window_size' = s
            /\ ctor_ret' = WgpuCtx_new_returns(r)
            /\ ctor_failure' = IF r = "Ok" THEN "none" ELSE r
            /\ created' = [windows |-> created.windows + 1,
                           contexts |-> created.contexts + (IF r = "Ok" THEN 1 ELSE 0)]
            /\ negotiated' = IF r = "Ok"
                             THEN [format |-> WgpuCtx_new(s, now).format,
                                   present_mode |-> WgpuCtx_new(s, now).present_mode]
                             ELSE negotiated
            /\ IF r = "Ok"
               THEN /\ ctx' = WgpuCtx_new(s, now)
                    /\ applied' = ctx'.surface_config
                    /\ zero_submitted' = (zero_submitted \/ HasZero(ctx'.surface_config))
                    /\ initial_size' = s
                    /\ UNCHANGED <<status, exit_code>>
               ELSE \* the panic inside WgpuCtx::new, or resumed's .unwrap() of
                    \* the Err it returned
                    /\ status' = "panicked"
                    /\ exit_code' = 101  \* a panic's exit status
                    /\ UNCHANGED <<ctx, applied, zero_submitted, initial_size>>
            /\ UNCHANGED <<prog, exit_phase, engine, uniform_buffer, now, frame, draw_pc, queue,
                           redraw_requested, configure_busy, resize_arg,
                           redrawHist, timeHist, closed>>

\* App::window_event, arms CloseRequested and Resized
App_window_event ==
    /\ prog = "App" /\ CanDispatch
    /\ queue # <<>>
    /\ LET ev == Head(queue) IN
       /\ queue' = Tail(queue)
       /\ IF ev.type = "CloseRequested"
          THEN \* event_loop.exit(); std::process::exit(0)
               /\ status' = "exited"
               /\ exit_code' = 0
               /\ closed' = TRUE
               /\ UNCHANGED <<ctx, redraw_requested, cfgHist>>
          ELSE /\ IF App_has_ctx(ctx) /\ window
                  THEN /\ ctx' = WgpuCtx_resize(ctx, ev.size)
                       /\ applied' = ctx'.surface_config
                       /\ zero_submitted' = (zero_submitted \/ HasZero(ctx'.surface_config))
                       /\ configure_busy' = (configure_busy \/ frame # "Idle")
                       /\ resize_arg' = ev.size
                       /\ UNCHANGED initial_size
                       /\ redraw_requested' = TRUE
                  ELSE UNCHANGED <<ctx, redraw_requested, cfgHist>>
               /\ UNCHANGED <<status, exit_code, closed>>
    /\ noop_event' = IF ctx.some \/ status' # "running" THEN "none" ELSE "window_event"
    /\ UNCHANGED <<prog, exit_phase, window, window_size, engine, uniform_buffer, now, frame,
                   draw_pc, redrawHist, timeHist, ctorHist>>

\* App::window_event, arm RedrawRequested: enters ctx.draw()
App_RedrawRequested ==
    /\ prog = "App" /\ CanDispatch
    /\ redraw_requested
    /\ IF App_has_ctx(ctx)
       THEN /\ draw_pc' = 1
            /\ redraw_requested' = FALSE
            /\ last_acquire' = "none"
            /\ last_present' = "none"
            /\ render_ret' = "none"
            /\ cycles' = 0
            /\ logged' = FALSE
            /\ trace' = <<"Idle">>
            /\ call_log' = <<>>
       ELSE \* no context: nothing drawn; request_redraw only if a window exists
            /\ redraw_requested' = window
            /\ UNCHANGED <<draw_pc, redrawHist>>
    /\ noop_event' = IF ctx.some THEN "none" ELSE "window_event"
    /\ UNCHANGED <<prog, exit_phase, status, exit_code, window, window_size, ctx, engine,
                   uniform_buffer, now, frame, queue, cfgHist, timeHist,
                   ctorHist, closed>>

\* one statement of WgpuCtx::draw
WgpuCtx_draw_step ==
    /\ prog = "App" /\ status = "running"
    /\ draw_pc \in 1..Len(WgpuCtx_draw)
    /\ LET op == WgpuCtx_draw[draw_pc]
           next == FrameStateAfter(op, frame)
       IN
       /\ call_log' = Append(call_log, op)
       /\ frame' = next
       /\ trace' = IF next # frame THEN Append(trace, next) ELSE trace
       /\ IF op = "write_buffer"
          THEN /\ uniform_buffer' = WgpuCtx_uniform_data(ctx, now)
               /\ prev_time' = uniform_buffer.time
               /\ prev_now' = last_now
               /\ last_now' = now
          ELSE UNCHANGED <<uniform_buffer, timeHist>>
       /\ last_present' = IF op = "present" THEN "Ok" ELSE last_present
       /\ IF op = "expect"
          THEN \E r \in SurfaceResults :
               /\ last_acquire' = r
               /\ IF r = "Ok"
                  THEN /\ draw_pc' = draw_pc + 1
                       /\ UNCHANGED <<status, exit_code, render_ret>>
                  ELSE \* .expect("Failed to get surface texture") panics
                       /\ status' = "panicked"
                       /\ exit_code' = 101  \* a panic's exit status
                       /\ render_ret' = "panic"
                       /\ UNCHANGED draw_pc
          ELSE /\ draw_pc' = draw_pc + 1
               /\ UNCHANGED <<status, exit_code, render_ret, last_acquire>>
    /\ UNCHANGED <<prog, exit_phase, window, window_size, ctx, engine, now, queue,
                   redraw_requested, cfgHist, cycles, logged,
                   noop_event, ctorHist, closed>>

\* WgpuCtx::draw returns; App::window_event then calls window.request_redraw()
WgpuCtx_draw_return ==
    /\ prog = "App" /\ status = "running"
    /\ draw_pc = Len(WgpuCtx_draw) + 1
    /\ draw_pc' = 0
    /\ frame' = "Idle"
    /\ trace' = Append(trace, "Idle")
    /\ render_ret' = "Ok"
    /\ redraw_requested' = window
    /\ UNCHANGED <<prog, exit_phase, status, exit_code, window, window_size, ctx, engine,
                   uniform_buffer, now, queue, cfgHist, timeHist,
                   noop_event, ctorHist, closed,
                   last_acquire, last_present, cycles, logged, call_log>>


(* ---------------------- engine/mod.rs : run, Engine -------------------- *)
\* run: Engine::create -> Engine::new. with_inner_size(800, 600) is a request;
\* Engine::new stores what window.inner_size() reports. wgpu rejects a
\* zero-sized configuration with a validation error, which either aborts the
\* process or is swallowed by the backend.
Engine_create ==
    /\ prog = "Engine" /\ status = "running" /\ ~engine.some /\ ~window
    /\ \E s \in Sizes, f \in FormatLists, accepted \in BOOLEAN :
       LET e == Engine_new(s, f) IN
       /\ window' = TRUE
       /\ window_size' = s
       /\ initial_size' = s
       /\ applied' = e.config
       /\ zero_submitted' = (zero_submitted \/ HasZero(e.config))
       /\ IF HasZero(e.config) /\ ~accepted
          THEN /\ status' = "panicked"
               /\ exit_code' = 101  \* a panic's exit status
               /\ ctor_ret' = "panic"
               /\ ctor_failure' = "InvalidConfiguration"
               /\ created' = [windows |-> created.windows + 1, contexts |-> created.contexts]
               /\ UNCHANGED <<engine, negotiated>>
          ELSE /\ accepted
               /\ engine' = e
               /\ ctor_ret' = "Ok"
               /\ ctor_failure' = "none"
               /\ created' = [windows |-> created.windows + 1,
                              contexts |-> created.contexts + 1]
               /\ negotiated' = [format |-> e.format, present_mode |-> e.present_mode]
               /\ UNCHANGED <<status, exit_code>>
    /\ UNCHANGED <<prog, exit_phase, ctx, uniform_buffer, now, frame, draw_pc, queue,
                   redraw_requested, configure_busy, resize_arg, redrawHist, timeHist,
                   noop_event, closed>>

\* run: arms CloseRequested and Resized. target.exit() asks the loop to stop:
\* winit tests the request when the iteration is over (the closure can tell by
\* target.exiting(), which run does not consult), so the window events already
\* pending are still dispatched to the closure.
Run_window_event ==
    /\ prog = "Engine" /\ CanDispatch /\ engine.some
    /\ status = "exiting" => exit_phase = "events"
    /\ queue # <<>>
    /\ LET ev == Head(queue) IN
       /\ queue' = Tail(queue)
       /\ IF ev.type = "CloseRequested"
          THEN \* target.exit()
               /\ status' = "exiting"
               /\ exit_phase' = "events"
               /\ closed' = TRUE
               /\ UNCHANGED <<exit_code, engine, cfgHist>>
          ELSE /\ engine' = Engine_resize(engine, ev.size)
               /\ resize_arg' = ev.size
               /\ UNCHANGED initial_size
               /\ IF Engine_resize_applies(ev.size)
                  THEN /\ applied' = engine'.config
                       /\ zero_submitted' = (zero_submitted \/ HasZero(engine'.config))
                       /\ configure_busy' = (configure_busy \/ frame # "Idle")
                  ELSE UNCHANGED <<applied, zero_submitted, configure_busy>>
               /\ UNCHANGED <<status, exit_phase, exit_code, closed>>
    /\ UNCHANGED <<prog, window, window_size, ctx, uniform_buffer, now, frame,
                   draw_pc, redraw_requested, redrawHist, timeHist,
                   noop_event, ctorHist>>

\* run: arm AboutToWait (all pending events handled): engine.update(dt), which
\* recomputes the camera uniform from the unchanged camera, and request_redraw
Run_AboutToWait ==
    /\ prog = "Engine" /\ CanDispatch /\ engine.some
    /\ status = "running"
    /\ queue = <<>>
    /\ ~redraw_requested
    /\ redraw_requested' = TRUE
    /\ UNCHANGED <<prog, exit_phase, status, exit_code, window, window_size, ctx, engine,
                   uniform_buffer, now, frame, draw_pc, queue, histVars>>

\* run: arm RedrawRequested calls engine.render(), i.e. Renderer::render
Run_RedrawRequested ==
    /\ prog = "Engine" /\ CanDispatch /\ engine.some
    /\ status = "exiting" => (exit_phase = "events" /\ queue = <<>>)
    /\ exit_phase' = IF status = "exiting" THEN "redraw" ELSE exit_phase
    /\ redraw_requested
    /\ redraw_requested' = FALSE
    /\ draw_pc' = 1
    /\ frame' = "Acquiring"
    /\ trace' = <<"Idle", "Acquiring">>
    /\ call_log' = <<"get_current_texture">>
    /\ last_acquire' = "none"
    /\ last_present' = "none"
    /\ render_ret' = "none"
    /\ cycles' = 0
    /\ logged' = FALSE
    /\ UNCHANGED <<prog, status, exit_code, window, window_size, ctx, engine,
                   uniform_buffer, now, queue, cfgHist, timeHist,
                   noop_event, ctorHist, closed>>

\* Renderer::render (crate::renderer), frame acquisition resolves
Renderer_render_acquire ==
    /\ prog = "Engine" /\ status \in Live
    /\ draw_pc = 1 /\ frame = "Acquiring"
    /\ \E r \in SurfaceResults :
       /\ last_acquire' = r
       /\ IF r = "Ok"
          THEN /\ frame' = "Encoding"
               /\ trace' = Append(trace, "Encoding")
               /\ call_log' = Append(call_log, "create_command_encoder")
               /\ UNCHANGED <<draw_pc, render_ret>>
          ELSE /\ frame' = "Idle"
               /\ trace' = Append(trace, "Idle")
               /\ render_ret' = r
               /\ draw_pc' = 2
               /\ UNCHANGED call_log
    /\ UNCHANGED <<prog, exit_phase, status, exit_code, window, window_size, ctx, engine,
                   uniform_buffer, now, queue, redraw_requested, cfgHist, timeHist,
                   noop_event, ctorHist, closed, last_present, cycles, logged>>

\* Renderer::render: the one render pass is encoded and submitted, the image
\* is presented
Renderer_render_advance ==
    /\ prog = "Engine" /\ status \in Live
    /\ draw_pc = 1 /\ frame \in {"Encoding", "Submitted"}
    /\ frame' = IF frame = "Encoding" THEN "Submitted" ELSE "Presented"
    /\ trace' = Append(trace, frame')
    /\ call_log' = IF frame = "Encoding"
                   THEN call_log \o <<"render_pass", "submit">>
                   ELSE Append(call_log, "present")
    /\ UNCHANGED <<prog, exit_phase, status, exit_code, window, window_size, ctx, engine,
                   uniform_buffer, now, draw_pc, queue, redraw_requested, cfgHist, timeHist,
                   noop_event, ctorHist, closed, last_acquire, last_present, render_ret,
                   cycles, logged>>

\* Renderer::render returns after presentation
Renderer_render_return ==
    /\ prog = "Engine" /\ status \in Live
    /\ draw_pc = 1 /\ frame = "Presented"
    /\ \E r \in PresentResults :
       /\ last_present' = r
       /\ render_ret' = r
    /\ frame' = "Idle"
    /\ trace' = Append(trace, "Idle")
    /\ draw_pc' = 2
    /\ UNCHANGED <<prog, exit_phase, status, exit_code, window, window_size, ctx, engine,
                   uniform_buffer, now, queue, redraw_requested, cfgHist, timeHist,
                   noop_event, ctorHist, closed, last_acquire, cycles, logged, call_log>>

\* run: the match on the result of engine.render()
Run_match ==
    /\ prog = "Engine" /\ status \in Live
    /\ draw_pc = 2
    /\ draw_pc' = 0
    /\ LET arm == Run_on_render(render_ret) IN
       /\ IF arm = "resize"
          THEN \* engine.resize(engine.window.inner_size())
               /\ engine' = Engine_resize(engine, window_size)
               /\ resize_arg' = window_size
               /\ IF Engine_resize_applies(window_size)
                  THEN /\ applied' = engine'.config
                       /\ zero_submitted' = (zero_submitted \/ HasZero(engine'.config))
                       /\ configure_busy' = (configure_busy \/ frame # "Idle")
                       /\ cycles' = cycles + 1
                  ELSE UNCHANGED <<applied, zero_submitted, configure_busy, cycles>>
          ELSE UNCHANGED <<engine, applied, zero_submitted, configure_busy,
                           resize_arg, cycles>>
       /\ IF arm = "exit"
          THEN \* target.exit(), called in the redraw part of the iteration
               /\ status' = "exiting"
               /\ exit_phase' = "redraw"
          ELSE UNCHANGED <<status, exit_phase>>
       /\ logged' = (arm = "log")
    /\ UNCHANGED <<prog, exit_code, window, window_size, ctx, uniform_buffer, now, frame,
                   queue, redraw_requested, initial_size, timeHist,
                   noop_event, ctorHist, closed, last_acquire,
                   last_present, render_ret, trace, call_log>>

\* run: the iteration in which target.exit() was called comes to its end.
\* Within an iteration winit dispatches the pending window events, then the
\* redraw that is due, then AboutToWait (whose arm calls request_redraw); then
\* it sees the exit request, event_loop.run returns and the process ends.
Run_loop_exit ==
    /\ prog = "Engine" /\ CanDispatch
    /\ status = "exiting"
    /\ exit_phase = "redraw" \/ (queue = <<>> /\ ~redraw_requested)
    /\ redraw_requested' = TRUE
    /\ status' = "exited"
    /\ exit_code' = 0
    /\ UNCHANGED <<prog, exit_phase, window, window_size, ctx, engine,
                   uniform_buffer, now, frame, draw_pc, queue, histVars>>

(* ---------------------------- specification ---------------------------- *)
Next ==
    \/ \E s \in Sizes : OSResize(s)
    \/ OSClose
    \/ OSExpose
    \/ \E t \in Instants : Tick(t)
    \/ App_resumed
    \/ App_window_event
    \/ App_RedrawRequested
    \/ WgpuCtx_draw_step
    \/ WgpuCtx_draw_return
    \/ Engine_create
    \/ Run_window_event
    \/ Run_AboutToWait
    \/ Run_RedrawRequested
    \/ Renderer_render_acquire
    \/ Renderer_render_advance
    \/ Renderer_render_return
    \/ Run_match
    \/ Run_loop_exit

Spec == Init /\ [][Next]_vars

TypeOK ==
    /\ prog \in {"App", "Engine"}
    /\ status \in {"running", "exiting", "exited", "panicked"}
    /\ exit_phase \in {"none", "events", "redraw"}
    /\ (status = "exiting") => (prog = "Engine" /\ exit_phase # "none")
    /\ frame \in FrameStates
    /\ Len(queue) <= MaxQueue
    /\ now \in Instants


(* ------------------------------ properties ----------------------------- *)
\* the stored surface configuration of whichever context exists
StoredConfig == IF prog = "App" THEN ctx.surface_config ELSE engine.config
Constructed == IF prog = "App" THEN ctx.some ELSE engine.some
Clamped(size) == [width |-> Max(size[1], 1), height |-> Max(size[2], 1)]
\* the redraw handler is not in the middle of handling a render result
Handled == ~(prog = "Engine" /\ draw_pc = 2)

Count(seq, x) == Cardinality({i \in 1..Len(seq) : seq[i] = x})
Pos(seq, x) == CHOOSE i \in 1..Len(seq) : seq[i] = x
IsPrefix(a, b) == Len(a) <= Len(b) /\ \A i \in 1..Len(a) : a[i] = b[i]
FullTrace == <<"Idle", "Acquiring", "Encoding", "Submitted", "Presented", "Idle">>

\* C1 (as claimed): after any resize call with argument (w,h), zero included,
\* the stored configuration is (max(w,1), max(h,1)) and it is the one last
\* applied to the surface, for WgpuCtx::resize and for Engine::resize. Stated
\* for the runs whose construction saw a non-zero window, so that a violation
\* is the resize's own.
C1_ResizeStoresClamped ==
    (Constructed /\ resize_arg # NoSize /\ ~zero_submitted) =>
        /\ StoredConfig = Clamped(resize_arg)
        /\ applied = StoredConfig

\* C2 (as claimed): whenever a context exists its stored configuration has
\* width >= 1 and height >= 1, and no zero-sized configuration has been passed
\* to surface.configure.
C2_ConfigNeverZero ==
    /\ Constructed => (StoredConfig.width >= 1 /\ StoredConfig.height >= 1)
    /\ ~zero_submitted

\* C3: after construction and after any sequence of Engine::resize calls,
\* Engine.depth_texture has the width and height of the stored configuration.
C3_DepthMatchesConfig ==
    engine.some =>
        engine.depth_texture = <<engine.config.width, engine.config.height>>

C3_Witness ==
    /\ engine.some
    /\ initial_size = <<800, 600>>
    /\ resize_arg = <<640, 480>>
    /\ engine.config = [width |-> 640, height |-> 480]
    /\ engine.depth_texture = <<640, 480>>
    /\ frame = "Acquiring"

\* C4 (as claimed, for the App / WgpuCtx::draw front end): once a SurfaceLost
\* acquisition has been handled, exactly one reconfigure cycle has run, the
\* frame was skipped, the renderer is Idle and the process is still running.
C4_SurfaceLostRecovers ==
    (prog = "App" /\ last_acquire = "Lost") =>
        /\ status = "running"
        /\ frame = "Idle"
        /\ cycles = 1
        /\ Count(call_log, "submit") = 0

OomSeen == last_acquire = "OutOfMemory" \/ last_present = "OutOfMemory"

C6_OtherErrorsSkipFrame ==
    (prog = "App" /\ last_acquire \in {"Timeout", "Outdated"}) =>
        /\ status = "running"
        /\ frame = "Idle"
        /\ logged
        /\ Count(call_log, "submit") = 0
        /\ Count(call_log, "present") = 0

\* C7 (as claimed, for the render entry point WgpuCtx::draw): for SurfaceLost
\* and every other non-OutOfMemory acquisition error, the call completes
\* normally for its caller.
C7_RenderHidesFrameErrors ==
    (prog = "App" /\ last_acquire \in SurfaceErrors \ {"OutOfMemory"}) =>
        render_ret = "Ok"

\* C8: a WgpuCtx::draw call whose acquisition succeeds visits Idle, Acquiring,
\* Encoding, Submitted, Presented, Idle in that order, nothing skipped or
\* repeated; it encodes one command buffer with one render pass and submits it
\* before presenting.
C8_FrameStateOrder ==
    (prog = "App" /\ last_acquire \in {"none", "Ok"}) =>
        /\ IsPrefix(trace, FullTrace)
        /\ (last_acquire = "Ok" /\ draw_pc = 0) =>
              /\ trace = FullTrace
              /\ Count(call_log, "create_command_encoder") = 1
              /\ Count(call_log, "render_pass") = 1
              /\ Count(call_log, "submit") = 1
              /\ Count(call_log, "present") = 1
              /\ Pos(call_log, "render_pass") < Pos(call_log, "submit")
              /\ Pos(call_log, "submit") < Pos(call_log, "present")

\* construct(800,600), configure(0,600), then a completed render
C8_Witness ==
    /\ prog = "App"
    /\ initial_size = <<800, 600>>
    /\ resize_arg = <<0, 600>>
    /\ ctx.surface_config = [width |-> 1, height |-> 600]
    /\ uniform_buffer.aspect = <<1, 600>>
    /\ last_acquire = "Ok" /\ draw_pc = 0
    /\ trace = FullTrace

\* C9: surface.configure is only ever called while the frame state is Idle, and
\* whenever a frame is being encoded, submitted or presented the last resize is
\* complete: the stored configuration is the applied one and the depth buffer
\* has its size.
C9_ResizeOnlyWhenIdle ==
    /\ ~configure_busy
    /\ frame \in {"Encoding", "Submitted", "Presented"} =>
          /\ applied = StoredConfig
          /\ engine.some =>
                engine.depth_texture = <<engine.config.width, engine.config.height>>

\* a Resized event is waiting while a frame is in flight
C9_Witness ==
    /\ frame \in {"Encoding", "Submitted"}
    /\ queue # <<>>
    /\ Head(queue).type = "Resized"
    /\ Clamped(Head(queue).size) # StoredConfig

\* C10 (as claimed): when the clock advanced between two consecutive render
\* calls, the later call packs a strictly greater elapsed time.
C10_StrictlyIncreasing ==
    (prev_now >= 0 /\ last_now > prev_now) => uniform_buffer.time > prev_time

\* C10 (amended): the elapsed time packed by a render call is never smaller
\* than the one packed by the previous call, resizes in between included.
C10_NonDecreasing ==
    prev_now >= 0 => uniform_buffer.time >= prev_time

C10_Witness ==
    /\ prev_now >= 0 /\ last_now > prev_now
    /\ uniform_buffer.time > prev_time
    /\ resize_arg # NoSize
    /\ uniform_buffer.aspect # <<Max(initial_size[1], 1), Max(initial_size[2], 1)>>

\* C11: while no context has been constructed, no resize and no draw has run
\* and no GPU resource has been touched, whatever window events were handled:
\* no render call is in progress or has issued a GPU operation, nothing was
\* written to the uniform buffer, and no resize call was made.
C11_NothingBeforeContext ==
    ~Constructed =>
        /\ draw_pc = 0 /\ frame = "Idle"
        /\ call_log = <<>> /\ trace = <<>>
        /\ uniform_buffer = NoUniform
        /\ resize_arg = NoSize /\ cycles = 0
        /\ last_acquire = "none" /\ last_present = "none"

\* a window event was handled, and dropped, before resumed built the context,
\* with a Resized event still waiting
C11_Witness ==
    /\ prog = "App" /\ ~ctx.some /\ ~window
    /\ status = "running"
    /\ noop_event = "window_event"
    /\ queue # <<>> /\ Head(queue).type = "Resized"

\* C12 (as claimed, for WgpuCtx::new as called by App::resumed): whenever
\* construction met a failure -- no surface, no adapter, no device, a rejected
\* shader or pipeline -- the constructor returned it to its caller as a
\* ContextError value, and no context exists.
C12_FailuresAreTyped ==
    (prog = "App" /\ ctor_failure # "none") =>
        /\ ctor_ret = "Err"
        /\ ~ctx.some /\ created.contexts = 0

\* C13 (as claimed): once a CloseRequested event has been handled, no frame is
\* acquired, encoded or submitted and no resize or surface reconfiguration is
\* made any more, whatever events were pending, and a process that has ended
\* after the close has exit code 0.
C13_NothingAfterClose ==
    /\ []((closed /\ status = "exited") => exit_code = 0)
    /\ [][closed => (/\ call_log' = call_log /\ trace' = trace /\ frame' = frame
                     /\ applied' = applied /\ resize_arg' = resize_arg
                     /\ engine' = engine /\ ctx' = ctx)]_vars

\* C14 (as claimed): after construction and after any sequence of
\* Engine::resize calls, Mesh.depth_texture has the width and height of the
\* stored surface configuration, as Engine.depth_texture has. Stated for the
\* runs in which no zero-sized configuration was ever stored.
C14_MeshDepthMatchesConfig ==
    (engine.some /\ ~zero_submitted) =>
        /\ engine.mesh_depth = <<engine.config.width, engine.config.height>>
        /\ engine.mesh_depth = engine.depth_texture

\* the render call that issued call_log is over: it returned or it panicked
CallEnded == draw_pc = 0 \/ status = "panicked"

\* C15 (as claimed, for WgpuCtx::draw): within a render call the uniform write
\* is queued before the render pass is encoded and before the command buffer
\* is submitted, and every call that queued a uniform write has, by its end,
\* encoded the render pass and submitted the command buffer.
C15_UniformWriteBelongsToFrame ==
    prog = "App" =>
        /\ Count(call_log, "render_pass") > 0 =>
              /\ Count(call_log, "write_buffer") = 1
              /\ Pos(call_log, "write_buffer") < Pos(call_log, "render_pass")
        /\ Count(call_log, "submit") > 0 =>
              Pos(call_log, "write_buffer") < Pos(call_log, "submit")
        /\ (Count(call_log, "write_buffer") > 0 /\ CallEnded) =>
              /\ Count(call_log, "render_pass") = 1
              /\ Count(call_log, "submit") = 1

\* the parts of a context that do not depend on the window size
CtxIdentity(c) == [c EXCEPT !.surface_config = NoConfig]

C17_KeepsRedrawing ==
    (Constructed /\ ~closed /\ ~OomSeen) =>
        /\ status = "running"
        /\ (prog = "App" /\ draw_pc = 0 /\ render_ret = "Ok") => redraw_requested

\* C18: the program creates at most one window and at most one context
\* (surface, adapter, device, queue), whatever resumed notifications arrive:
\* a context App holds is the one the first resumed built, together with the
\* window created then.
C18_CreatedOnce ==
    /\ created.windows <= 1 /\ created.contexts <= 1
    /\ (prog = "App" /\ ctx.some) =>
          /\ window
          /\ created = [windows |-> 1, contexts |-> 1]
          /\ ctx.device = 1 /\ ctx.start_time = 0

\* resumed was delivered again to an App whose context had been resized, and
\* left it as it was
C18_Witness ==
    /\ prog = "App" /\ ctx.some
    /\ noop_event = "resumed"
    /\ resize_arg = <<0, 600>>
    /\ ctx.surface_config = [width |-> 1, height |-> 600]
    /\ initial_size = <<800, 600>>
    /\ last_acquire = "Ok"

====
